---- MODULE Spec2Model ----
(***************************************************************************)
(* Key Wheel Converter (src/__init__.py): the KeyMap lookup table, the     *)
(* input normalisation of KeyWheelConverter._parse_input and the lookup of *)
(* KeyWheelConverter.converter.                                            *)
(*                                                                         *)
(* A Python str is a sequence of one-character strings.  The flat glyph    *)
(* (U+266D) is the single character FlatSign.                              *)
(***************************************************************************)
EXTENDS Integers, Sequences, FiniteSets, TLC

VARIABLES
  keys,         \* KeyMap.keys: lookup string -> record of the five notations
  api,          \* KeyWheelConverter.api: "None" until set_api is called
  text,         \* argument of the converter call under study
  out_type,     \* requested output format of that call
  match_text,   \* converter's local match_text (result of _parse_input)
  status,       \* how that call ended: "returned" or "raised"; "idle" when
                \* the operation that ran last was not a converter call
  result,       \* the value the call returned
  logged,       \* the call wrote a debug entry to api.logger
  inits,        \* number of completed KeyMap.initialize() calls
  ipc,          \* initialize() thread: 0 = not running, e = next entry to insert
  cpc           \* converter() thread: "idle", "test", "read" or "done"

vars ==
  <<keys, api, text, out_type, match_text, status, result, logged, inits,
    ipc, cpc>>

-----------------------------------------------------------------------------
(* Bounds of the model *)

\* initialize() is called at most MaxInits times in one behaviour
MaxInits == 2

\* a case variant of a spelling changes the case of at most MaxFlips letters
\* (the all-upper and all-lower variants are always included)
MaxFlips == 1

-----------------------------------------------------------------------------
(* Characters and the str methods the code uses *)

FlatSign == "<flat>"

LowerChars ==
  <<"a", "b", "c", "d", "e", "f", "g", "h", "i", "j", "k", "l", "m",
    "n", "o", "p", "q", "r", "s", "t", "u", "v", "w", "x", "y", "z">>

UpperChars ==
  <<"A", "B", "C", "D", "E", "F", "G", "H", "I", "J", "K", "L", "M",
    "N", "O", "P", "Q", "R", "S", "T", "U", "V", "W", "X", "Y", "Z">>

DigitChars ==
  <<"0", "1", "2", "3", "4", "5", "6", "7", "8", "9">>

Whitespace == {" ", "\t", "\n"}

Range(f) == {f[i] : i \in DOMAIN f}

\* the case mappings of the ASCII letters
ToUpper == [c \in Range(LowerChars) |->
              UpperChars[CHOOSE i \in DOMAIN LowerChars : LowerChars[i] = c]]

ToLower == [c \in Range(UpperChars) |->
              LowerChars[CHOOSE i \in DOMAIN UpperChars : UpperChars[i] = c]]

\* str.upper() on one character
UpperChar(c) == IF c \in DOMAIN ToUpper THEN ToUpper[c] ELSE c

\* str.lower() on one character
LowerChar(c) == IF c \in DOMAIN ToLower THEN ToLower[c] ELSE c

upper(s) == [i \in 1..Len(s) |-> UpperChar(s[i])]

lower(s) == [i \in 1..Len(s) |-> LowerChar(s[i])]

\* s[n:] for 0 <= n (Python slice, 0-based start)
SliceFrom(s, n) == SubSeq(s, n + 1, Len(s))

\* str.strip(): drop leading and trailing whitespace
RECURSIVE lstrip(_)
lstrip(s) ==
  IF s # <<>> /\ Head(s) \in Whitespace THEN lstrip(Tail(s)) ELSE s

RECURSIVE rstrip(_)
rstrip(s) ==
  IF s # <<>> /\ s[Len(s)] \in Whitespace
    THEN rstrip(SubSeq(s, 1, Len(s) - 1))
    ELSE s

strip(s) == rstrip(lstrip(s))

\* str.replace(old, new) for a non-empty old: leftmost, non-overlapping
RECURSIVE replace(_, _, _)
replace(s, old, new) ==
  IF Len(s) < Len(old) THEN s
  ELSE IF SubSeq(s, 1, Len(old)) = old
    THEN new \o replace(SliceFrom(s, Len(old)), old, new)
    ELSE <<Head(s)>> \o replace(Tail(s), old, new)

\* length of the leading run of non-whitespace characters
WordLen(s) ==
  IF \E i \in 1..Len(s) : s[i] \in Whitespace
    THEN (CHOOSE i \in 1..Len(s) :
            s[i] \in Whitespace /\ \A j \in 1..(i - 1) : s[j] \notin Whitespace) - 1
    ELSE Len(s)

\* str.split(): the whitespace-separated words
RECURSIVE split(_)
split(s) ==
  IF s = <<>> THEN <<>>
  ELSE IF Head(s) \in Whitespace THEN split(Tail(s))
  ELSE <<SubSeq(s, 1, WordLen(s))>> \o split(SliceFrom(s, WordLen(s)))

\* sep.join(parts)
RECURSIVE join(_, _)
join(sep, parts) ==
  IF parts = <<>> THEN <<>>
  ELSE IF Len(parts) = 1 THEN parts[1]
  ELSE parts[1] \o sep \o join(sep, Tail(parts))

DigitValue(c) == (CHOOSE i \in DOMAIN DigitChars : DigitChars[i] = c) - 1

\* int(s) for a string of decimal digits
RECURSIVE int(_)
int(s) ==
  IF s = <<>> THEN 0
  ELSE 10 * int(SubSeq(s, 1, Len(s) - 1)) + DigitValue(s[Len(s)])

\* "{0}".format(n) for n >= 0
RECURSIVE format(_)
format(n) ==
  IF n < 10 THEN <<DigitChars[n + 1]>>
  ELSE format(n \div 10) \o <<DigitChars[(n % 10) + 1]>>

-----------------------------------------------------------------------------
(* KeyMap *)

\* the list of tuples of initialize(): camelot, open, standard with symbols,
\* standard with text, traktor (item[0] .. item[4] in the source)
_keys ==
  << << <<"1", "A">>,
        <<"6", "m">>,
        <<"A", FlatSign, " ", "M", "i", "n", "o", "r">>,
        <<"A", "-", "F", "l", "a", "t", " ", "M", "i", "n", "o", "r">>,
        <<"A", "b", "m">> >>,
     << <<"1", "B">>,
        <<"6", "d">>,
        <<"B", " ", "M", "a", "j", "o", "r">>,
        <<"B", " ", "M", "a", "j", "o", "r">>,
        <<"B">> >>,
     << <<"2", "A">>,
        <<"7", "m">>,
        <<"E", FlatSign, " ", "M", "i", "n", "o", "r">>,
        <<"E", "-", "F", "l", "a", "t", " ", "M", "i", "n", "o", "r">>,
        <<"E", "b", "m">> >>,
     << <<"2", "B">>,
        <<"7", "d">>,
        <<"F", "#", " ", "M", "a", "j", "o", "r">>,
        <<"F", "-", "S", "h", "a", "r", "p", " ", "M", "a", "j", "o", "r">>,
        <<"F", "#">> >>,
     << <<"3", "A">>,
        <<"8", "m">>,
        <<"B", FlatSign, " ", "M", "i", "n", "o", "r">>,
        <<"B", "-", "F", "l", "a", "t", " ", "M", "i", "n", "o", "r">>,
        <<"B", "b", "m">> >>,
     << <<"3", "B">>,
        <<"8", "d">>,
        <<"D", FlatSign, " ", "M", "a", "j", "o", "r">>,
        <<"D", "-", "F", "l", "a", "t", " ", "M", "a", "j", "o", "r">>,
        <<"D", "b">> >>,
     << <<"4", "A">>,
        <<"9", "m">>,
        <<"F", " ", "M", "i", "n", "o", "r">>,
        <<"F", " ", "M", "i", "n", "o", "r">>,
        <<"F", "m">> >>,
     << <<"4", "B">>,
        <<"9", "d">>,
        <<"A", FlatSign, " ", "M", "a", "j", "o", "r">>,
        <<"A", "-", "F", "l", "a", "t", " ", "M", "a", "j", "o", "r">>,
        <<"A", "b">> >>,
     << <<"5", "A">>,
        <<"1", "0", "m">>,
        <<"C", " ", "M", "i", "n", "o", "r">>,
        <<"C", " ", "M", "i", "n", "o", "r">>,
        <<"C", "m">> >>,
     << <<"5", "B">>,
        <<"1", "0", "d">>,
        <<"E", FlatSign, " ", "M", "a", "j", "o", "r">>,
        <<"E", "-", "F", "l", "a", "t", " ", "M", "a", "j", "o", "r">>,
        <<"E", "b">> >>,
     << <<"6", "A">>,
        <<"1", "1", "m">>,
        <<"G", " ", "M", "i", "n", "o", "r">>,
        <<"G", " ", "M", "i", "n", "o", "r">>,
        <<"G", "m">> >>,
     << <<"6", "B">>,
        <<"1", "1", "d">>,
        <<"B", FlatSign, " ", "M", "a", "j", "o", "r">>,
        <<"B", "-", "F", "l", "a", "t", " ", "M", "a", "j", "o", "r">>,
        <<"B", "b">> >>,
     << <<"7", "A">>,
        <<"1", "2", "m">>,
        <<"D", " ", "M", "i", "n", "o", "r">>,
        <<"D", " ", "M", "i", "n", "o", "r">>,
        <<"D", "m">> >>,
     << <<"7", "B">>,
        <<"1", "2", "d">>,
        <<"F", " ", "M", "a", "j", "o", "r">>,
        <<"F", " ", "M", "a", "j", "o", "r">>,
        <<"F">> >>,
     << <<"8", "A">>,
        <<"1", "m">>,
        <<"A", " ", "M", "i", "n", "o", "r">>,
        <<"A", " ", "M", "i", "n", "o", "r">>,
        <<"A", "m">> >>,
     << <<"8", "B">>,
        <<"1", "d">>,
        <<"C", " ", "M", "a", "j", "o", "r">>,
        <<"C", " ", "M", "a", "j", "o", "r">>,
        <<"C">> >>,
     << <<"9", "A">>,
        <<"2", "m">>,
        <<"E", " ", "M", "i", "n", "o", "r">>,
        <<"E", " ", "M", "i", "n", "o", "r">>,
        <<"E", "m">> >>,
     << <<"9", "B">>,
        <<"2", "d">>,
        <<"G", " ", "M", "a", "j", "o", "r">>,
        <<"G", " ", "M", "a", "j", "o", "r">>,
        <<"G">> >>,
     << <<"1", "0", "A">>,
        <<"3", "m">>,
        <<"B", " ", "M", "i", "n", "o", "r">>,
        <<"B", " ", "M", "i", "n", "o", "r">>,
        <<"B", "m">> >>,
     << <<"1", "0", "B">>,
        <<"3", "d">>,
        <<"D", " ", "M", "a", "j", "o", "r">>,
        <<"D", " ", "M", "a", "j", "o", "r">>,
        <<"D">> >>,
     << <<"1", "1", "A">>,
        <<"4", "m">>,
        <<"G", FlatSign, " ", "M", "i", "n", "o", "r">>,
        <<"G", "-", "F", "l", "a", "t", " ", "M", "i", "n", "o", "r">>,
        <<"G", "b", "m">> >>,
     << <<"1", "1", "B">>,
        <<"4", "d">>,
        <<"A", " ", "M", "a", "j", "o", "r">>,
        <<"A", " ", "M", "a", "j", "o", "r">>,
        <<"A">> >>,
     << <<"1", "2", "A">>,
        <<"5", "m">>,
        <<"D", FlatSign, " ", "M", "i", "n", "o", "r">>,
        <<"D", "-", "F", "l", "a", "t", " ", "M", "i", "n", "o", "r">>,
        <<"D", "b", "m">> >>,
     << <<"1", "2", "B">>,
        <<"5", "d">>,
        <<"E", " ", "M", "a", "j", "o", "r">>,
        <<"E", " ", "M", "a", "j", "o", "r">>,
        <<"E">> >> >>

\* KeyMap.s_alt: alternate mapping for standard keys
s_alt ==
  (<<"G", "-", "F", "l", "a", "t", " ", "M", "a", "j", "o", "r">> :> <<"F", "-", "S", "h", "a", "r", "p", " ", "M", "a", "j", "o", "r">>)
  @@ (<<"D", "-", "S", "h", "a", "r", "p", " ", "M", "i", "n", "o", "r">> :> <<"E", "-", "F", "l", "a", "t", " ", "M", "i", "n", "o", "r">>)

\* t_alt with every sharp mapped to the flat of the same letter
t_alt_same_letter ==
  (<<"G", "#">> :> <<"G", "b">>)
  @@ (<<"A", "#">> :> <<"A", "b">>)
  @@ (<<"C", "#">> :> <<"C", "b">>)
  @@ (<<"D", "#">> :> <<"D", "b">>)
  @@ (<<"G", "#", "m">> :> <<"G", "b", "m">>)
  @@ (<<"A", "#", "m">> :> <<"A", "b", "m">>)
  @@ (<<"C", "#", "m">> :> <<"C", "b", "m">>)
  @@ (<<"D", "#", "m">> :> <<"D", "b", "m">>)
  @@ (<<"F", "#", "m">> :> <<"F", "b", "m">>)

\* KeyMap.t_alt: alternate mapping for traktor keys
t_alt ==
  (<<"G", "#">> :> <<"A", "b">>)
  @@ (<<"A", "#">> :> <<"B", "b">>)
  @@ (<<"C", "#">> :> <<"D", "b">>)
  @@ (<<"D", "#">> :> <<"E", "b">>)
  @@ (<<"G", "#", "m">> :> <<"A", "b", "m">>)
  @@ (<<"A", "#", "m">> :> <<"B", "b", "m">>)
  @@ (<<"C", "#", "m">> :> <<"D", "b", "m">>)
  @@ (<<"D", "#", "m">> :> <<"E", "b", "m">>)
  @@ (<<"F", "#", "m">> :> <<"G", "b", "m">>)

\* the output formats converter is called with (func_key2camelot,
\* func_key2openkey, func_key2standard, func_key2traktor)
OutTypes == {"camelot", "open", "standard_s", "standard_t", "traktor"}

\* KeyIndexes with the camelot field left out of the mapping keys: for i in [3, 4]
KeyIndexes_no_camelot == <<4, 5>>

\* 1-based positions of the tuple fields used as mapping keys: for i in [0, 3, 4]
KeyIndexes == <<1, 4, 5>>

\* KeyRecord with the two standard columns filled from each other's field
KeyRecord_swapped(item) ==
  [camelot    |-> item[1],
   open       |-> item[2],
   standard_s |-> item[4],
   standard_t |-> item[3],
   traktor    |-> item[5]]

\* the dictionary value stored for one tuple
KeyRecord(item) ==
  [camelot    |-> item[1],
   open       |-> item[2],
   standard_s |-> item[3],
   standard_t |-> item[4],
   traktor    |-> item[5]]

\* cls.keys = {}
EmptyDict == [x \in {} |-> x]

\* d[key] = value
setitem(d, key, value) == (key :> value) @@ d

\* the assignments of the nested loops, numbered 1 .. NumEntries in loop order
NumEntries == Len(_keys) * Len(KeyIndexes)

EntryItem(e) == _keys[((e - 1) \div Len(KeyIndexes)) + 1]

EntryKey(e) == EntryItem(e)[KeyIndexes[((e - 1) % Len(KeyIndexes)) + 1]]

\* one assignment cls.keys[item[i]] = {...}
InsertEntry(d, e) == setitem(d, EntryKey(e), KeyRecord(EntryItem(e)))

\* KeyMap.keys after the first n assignments to the empty dictionary: each
\* key holds the value of the last assignment made to it
KeysAfter(n) ==
  [k \in {EntryKey(e) : e \in 1..n} |->
     LET last == CHOOSE e \in 1..n :
                   /\ EntryKey(e) = k
                   /\ \A f \in (e + 1)..n : EntryKey(f) # k
     IN  KeyRecord(EntryItem(last))]

\* the value of KeyMap.keys when initialize() returns
initialize == KeysAfter(NumEntries)

-----------------------------------------------------------------------------
(* KeyWheelConverter._parse_input *)

IsDigits(s) == \A i \in 1..Len(s) : s[i] \in Range(DigitChars)

\* re.match("[0-9]{1,2}[ABab]$", text)
IsCamelot(s) ==
  /\ Len(s) \in {2, 3}
  /\ IsDigits(SubSeq(s, 1, Len(s) - 1))
  /\ s[Len(s)] \in {"A", "B", "a", "b"}

\* re.match("[0-9]{1,2}[dmDM]$", text)
IsOpenKey(s) ==
  /\ Len(s) \in {2, 3}
  /\ IsDigits(SubSeq(s, 1, Len(s) - 1))
  /\ s[Len(s)] \in {"d", "m", "D", "M"}

\* re.match("[a-gA-G][#Bb]?[mM]?$", text)
IsTraktor(s) ==
  /\ Len(s) \in {1, 2, 3}
  /\ s[1] \in {"a", "b", "c", "d", "e", "f", "g", "A", "B", "C", "D", "E", "F", "G"}
  /\ Len(s) = 2 => s[2] \in {"#", "B", "b", "m", "M"}
  /\ Len(s) = 3 => s[2] \in {"#", "B", "b"} /\ s[3] \in {"m", "M"}

\* parse_camelot without the upper(): return text
parse_camelot_as_is(s) == s

\* camelot branch: return text.upper()
parse_camelot(s) == upper(s)

\* temp = int(text[0:-1])
open_number(s) == int(SubSeq(s, 1, Len(s) - 1))

\* parse_open with the offset off by one: ((temp + 5) % 12) + 1
parse_open_offset_five(s) ==
  LET temp  == int(SubSeq(s, 1, Len(s) - 1))
      _num  == ((temp + 5) % 12) + 1
      _char == replace(replace(lower(SliceFrom(s, Len(s) - 1)), <<"m">>, <<"A">>),
                       <<"d">>, <<"B">>)
  IN  format(_num) \o _char

\* open key branch: the camelot key computed when 0 < temp < 13
parse_open(s) ==
  LET temp  == open_number(s)
      _num  == ((temp + 6) % 12) + 1
      _char == replace(replace(lower(SliceFrom(s, Len(s) - 1)), <<"m">>, <<"A">>),
                       <<"d">>, <<"B">>)
  IN  format(_num) \o _char

\* traktor branch
parse_traktor(s) ==
  LET temp == upper(SubSeq(s, 1, 1))
                \o lower(replace(SliceFrom(s, 1), <<FlatSign>>, <<"b">>))
  IN  IF temp \in DOMAIN t_alt THEN t_alt[temp] ELSE temp

\* part[0:1].upper() + part[1:]
capitalize_first(part) == upper(SubSeq(part, 1, 1)) \o SliceFrom(part, 1)

\* parse_standard without the conversion of the flat and sharp symbols to text
parse_standard_no_symbols(s) ==
  LET hyphened == replace(replace(lower(s), <<" ", "s">>, <<"-", "s">>),
                          <<" ", "f">>, <<"-", "f">>)
      parts    == split(hyphened)
      capped   == [i \in 1..Len(parts) |-> upper(SubSeq(parts[i], 1, 1)) \o SliceFrom(parts[i], 1)]
      temp     == replace(replace(join(<<" ">>, capped), <<"-", "s">>, <<"-", "S">>),
                          <<"-", "f">>, <<"-", "F">>)
  IN  IF temp \in DOMAIN s_alt THEN s_alt[temp] ELSE temp

\* standard key branch
parse_standard(s) ==
  LET hyphened == replace(replace(lower(s), <<" ", "s">>, <<"-", "s">>),
                          <<" ", "f">>, <<"-", "f">>)
      worded   == replace(replace(hyphened, <<FlatSign>>, <<"-", "F", "l", "a", "t">>),
                          <<"#">>, <<"-", "S", "h", "a", "r", "p">>)
      parts    == split(worded)
      capped   == [i \in 1..Len(parts) |-> capitalize_first(parts[i])]
      temp     == replace(replace(join(<<" ">>, capped), <<"-", "s">>, <<"-", "S">>),
                          <<"-", "f">>, <<"-", "F">>)
  IN  IF temp \in DOMAIN s_alt THEN s_alt[temp] ELSE temp

_parse_input(s) ==
  LET stripped == strip(s)
  IN  IF stripped = <<>> THEN <<>>
      ELSE IF IsCamelot(stripped) THEN parse_camelot(stripped)
      ELSE IF IsOpenKey(stripped) /\ 0 < open_number(stripped) /\ open_number(stripped) < 13
        THEN parse_open(stripped)
      ELSE IF IsTraktor(stripped) THEN parse_traktor(stripped)
      ELSE parse_standard(stripped)

-----------------------------------------------------------------------------
(* KeyWheelConverter.converter *)

\* the failed-match path: cls.api.logger.debug(...) then return ''.
\* With api None the attribute access raises AttributeError.
no_match(d, a, m) ==
  IF a = "None"
    THEN [status |-> "raised", result |-> <<>>, match_text |-> m,
          logged |-> FALSE, keys |-> d]
    ELSE [status |-> "returned", result |-> <<>>, match_text |-> m,
          logged |-> TRUE, keys |-> d]

\* return KeyMap.keys[match_text][out_type]
lookup(d, m, fmt) ==
  [status |-> "returned", result |-> d[m][fmt], match_text |-> m,
   logged |-> FALSE, keys |-> d]

\* converter remembering a matched input: KeyMap.keys[text] = KeyMap.keys[match_text]
converter_caching(d, a, s, fmt) ==
  LET m == _parse_input(s)
  IN  IF m \notin DOMAIN d
        THEN no_match(d, a, m)
        ELSE [lookup(d, m, fmt) EXCEPT !.keys = setitem(d, s, d[m])]

\* one whole call converter(s, fmt) with KeyMap.keys = d and cls.api = a:
\* its outcome and the value of KeyMap.keys it leaves
converter(d, a, s, fmt) ==
  LET m == _parse_input(s)
  IN  IF m \notin DOMAIN d THEN no_match(d, a, m) ELSE lookup(d, m, fmt)

-----------------------------------------------------------------------------
(* The inputs converter is called with *)

\* every spelling of the 24 keys in the five notations
Spellings == UNION {Range(_keys[i]) : i \in DOMAIN _keys}

\* every alternate spelling of the two alias tables
AliasSpellings == (DOMAIN s_alt) \cup (DOMAIN t_alt)

Letters == Range(LowerChars) \cup Range(UpperChars)

FlipCase(c) == IF c \in Range(LowerChars) THEN UpperChar(c) ELSE LowerChar(c)

\* s with the case of the letters at the positions P changed
FlipAt(s, P) == [i \in 1..Len(s) |-> IF i \in P THEN FlipCase(s[i]) ELSE s[i]]

\* s itself, s with the case of up to MaxFlips letters changed, s in upper
\* case and s in lower case
CaseVariants(s) ==
  LET pos == {i \in 1..Len(s) : s[i] \in Letters}
  IN  {FlipAt(s, P) : P \in {Q \in SUBSET pos : Cardinality(Q) <= MaxFlips}}
        \cup {upper(s), lower(s)}

\* one or two digits followed by one of the camelot or open key letters
WheelInputs ==
  LET digit  == Range(DigitChars)
      number == {<<a>> : a \in digit} \cup {<<a, b>> : a \in digit, b \in digit}
  IN  {n \o <<c>> : n \in number, c \in {"A", "B", "a", "b", "d", "m", "D", "M"}}

\* a spelling with whitespace around it
Padded(s) == <<" ">> \o s \o <<"\t", "\n">>

\* empty input, unknown keys and standard names written with spaces or symbols
OtherInputs ==
  { <<>>,
    <<" ">>,
    <<" ", "\t", "\n">>,
    <<"Z", "9">>,
    <<"H">>,
    <<"C", "b">>,
    <<"E", "#">>,
    <<"A", "m", "7">>,
    <<"8", "C">>,
    <<"1", "2", "3", "A">>,
    <<"A", " ", "F", "l", "a", "t", " ", "M", "i", "n", "o", "r">>,
    <<"F", " ", "S", "h", "a", "r", "p", " ", "M", "a", "j", "o", "r">>,
    <<"G", " ", "F", "l", "a", "t", " ", "M", "a", "j", "o", "r">>,
    <<"A", " ", "S", "h", "a", "r", "p", " ", "M", "i", "n", "o", "r">>,
    <<"a", "#", " ", "m", "i", "n", "o", "r">>,
    <<"C", " ", " ", "M", "a", "j", "o", "r">>,
    <<"C", "\t", "M", "a", "j", "o", "r">>,
    <<"G", FlatSign, " ", "M", "a", "j", "o", "r">>,
    <<"D", "#", " ", "M", "i", "n", "o", "r">>,
    <<"A", FlatSign, "m">>,
    <<"M", "a", "j", "o", "r">> }

Inputs ==
  UNION {CaseVariants(s) : s \in Spellings \cup AliasSpellings}
    \cup WheelInputs
    \cup {Padded(s) : s \in Spellings}
    \cup OtherInputs

\* inputs of the calls that run while another thread runs initialize()
ConcInputs == {_keys[i][4] : i \in DOMAIN _keys} \cup {<<"Z", "9">>}

-----------------------------------------------------------------------------
(* Sequential behaviour: each call runs to completion *)

\* the class attributes as the class bodies leave them, before enable()
Init ==
  /\ keys = EmptyDict
  /\ api = "None"
  /\ text \in Inputs
  /\ out_type \in OutTypes
  /\ match_text = <<>>
  /\ status = "idle"
  /\ result = <<>>
  /\ logged = FALSE
  /\ inits = 0
  /\ ipc = 0
  /\ cpc = "idle"

\* the operation that runs is not a converter call: nothing was returned
NoCall ==
  /\ match_text' = <<>>
  /\ status' = "idle"
  /\ result' = <<>>
  /\ logged' = FALSE

\* KeyMap.initialize()
Initialize ==
  /\ inits < MaxInits
  /\ keys' = initialize
  /\ inits' = inits + 1
  /\ NoCall
  /\ UNCHANGED <<api, text, out_type, ipc, cpc>>

\* KeyWheelConverter.set_api(api)
SetApi ==
  /\ api' = "api"
  /\ NoCall
  /\ UNCHANGED <<keys, text, out_type, inits, ipc, cpc>>

\* KeyWheelConverter.converter(text, out_type)
Converter ==
  LET r == converter(keys, api, text, out_type)
  IN  /\ keys' = r.keys
      /\ match_text' = r.match_text
      /\ status' = r.status
      /\ result' = r.result
      /\ logged' = r.logged
      /\ UNCHANGED <<api, text, out_type, inits, ipc, cpc>>

Next == Initialize \/ SetApi \/ Converter

Spec == Init /\ [][Next]_vars

-----------------------------------------------------------------------------
(* Two threads: one re-runs initialize() while the other runs converter() *)

\* the state enable() leaves: table built, api set
InitConc ==
  /\ keys = initialize
  /\ api = "api"
  /\ text \in ConcInputs
  /\ out_type \in OutTypes
  /\ match_text = <<>>
  /\ status = "idle"
  /\ result = <<>>
  /\ logged = FALSE
  /\ inits = 1
  /\ ipc = 0
  /\ cpc = "idle"

\* cls.keys = {}
InitializeRebind ==
  /\ ipc = 0
  /\ inits < MaxInits
  /\ keys' = EmptyDict
  /\ ipc' = 1
  /\ UNCHANGED <<api, text, out_type, match_text, status, result, logged, inits,
                 cpc>>

\* cls.keys[item[i]] = {...}; initialize() returns after the last one
InitializeInsert ==
  /\ ipc \in 1..NumEntries
  /\ keys' = InsertEntry(keys, ipc)
  /\ IF ipc = NumEntries
       THEN ipc' = 0 /\ inits' = inits + 1
       ELSE ipc' = ipc + 1 /\ UNCHANGED inits
  /\ UNCHANGED <<api, text, out_type, match_text, status, result, logged,
                 cpc>>

\* match_text = cls._parse_input(text)
ConverterParse ==
  /\ cpc \in {"idle", "done"}
  /\ match_text' = _parse_input(text)
  /\ status' = "idle"
  /\ result' = <<>>
  /\ logged' = FALSE
  /\ cpc' = "test"
  /\ UNCHANGED <<keys, api, text, out_type, inits, ipc>>

\* if match_text not in KeyMap.keys: log and return ''
ConverterTest ==
  /\ cpc = "test"
  /\ IF match_text \notin DOMAIN keys
       THEN LET r == no_match(keys, api, match_text)
            IN  /\ status' = r.status
                /\ result' = r.result
                /\ logged' = r.logged
                /\ cpc' = "done"
       ELSE /\ cpc' = "read"
            /\ UNCHANGED <<status, result, logged>>
  /\ UNCHANGED <<keys, api, text, out_type, match_text, inits, ipc>>

\* return KeyMap.keys[match_text][out_type]: KeyError when the key is missing
ConverterRead ==
  /\ cpc = "read"
  /\ IF match_text \in DOMAIN keys
       THEN LET r == lookup(keys, match_text, out_type)
            IN  status' = r.status /\ result' = r.result
       ELSE status' = "raised" /\ result' = <<>>
  /\ cpc' = "done"
  /\ UNCHANGED <<keys, api, text, out_type, match_text, logged, inits, ipc>>

NextConc ==
  \/ InitializeRebind
  \/ InitializeInsert
  \/ ConverterParse
  \/ ConverterTest
  \/ ConverterRead

SpecConc == InitConc /\ [][NextConc]_vars

-----------------------------------------------------------------------------
(* Properties *)

\* the value recorded for a tuple in the column of an output format
Column(item, fmt) ==
  CASE fmt = "camelot"    -> item[1]
    [] fmt = "open"       -> item[2]
    [] fmt = "standard_s" -> item[3]
    [] fmt = "standard_t" -> item[4]
    [] fmt = "traktor"    -> item[5]

\* the last operation was a converter call
Called == status # "idle"

\* the input has the camelot shape, or the open key shape with a number 1..12
WheelShaped(s) ==
  \/ IsCamelot(s)
  \/ IsOpenKey(s) /\ open_number(s) \in 1..12

\* the input has the open key shape with a number that is 0 or 13..99
OpenOutOfRange(s) == IsOpenKey(s) /\ open_number(s) \notin 1..12

\* C1: once initialize() has run, converting the standard_text spelling or
\* the traktor spelling of any of the 24 keys returns, for every output
\* format, the value recorded for that key in that column.
C1_TableValues ==
  (inits >= 1 /\ Called)
    => \A i \in DOMAIN _keys :
         text \in {_keys[i][4], _keys[i][5]}
           => status = "returned" /\ result = Column(_keys[i], out_type)

C1_Witness ==
  /\ inits >= 1
  /\ text = _keys[1][5]
  /\ out_type = "standard_s"
  /\ status = "returned"
  /\ result = _keys[1][3]

\* C2: round trip: the rendering of a key's standard_text spelling in any
\* output format is accepted as input, and converting it to standard_t
\* gives the standard_text spelling back.
C2_RoundTrip ==
  (inits >= 1 /\ Called)
    => \A i \in DOMAIN _keys :
         text = _keys[i][4]
           => /\ status = "returned"
              /\ converter(keys, api, result, "standard_t").status = "returned"
              /\ converter(keys, api, result, "standard_t").result = text

C2_Witness ==
  /\ inits >= 1
  /\ text = _keys[4][4]
  /\ out_type = "open"
  /\ status = "returned"
  /\ result = _keys[4][2]
  /\ converter(keys, api, result, "standard_t").result = _keys[4][4]

\* C3 as stated: a camelot-shaped or in-range open-key-shaped input bypasses
\* the table, so the call returns the computed camelot string whatever the
\* output format.
C3_BypassesTable ==
  (inits >= 1 /\ status = "returned" /\ WheelShaped(strip(text)))
    => result = match_text

\* C3 as amended: the computed camelot string is looked up in the table like
\* any other normalised input.  When it is one of the 24 registered camelot
\* keys the call returns that key's value in the column of the output format
\* ("8B" gives "C Major" for standard_t); when it is not ("13A", "08B") the
\* call takes the failed-match path, which returns the empty string when an
\* api is set, and never returns the input as-is.
C3_TableLookup ==
  (inits >= 1 /\ Called /\ WheelShaped(strip(text)))
    => IF \E i \in DOMAIN _keys : _keys[i][1] = match_text
         THEN \A i \in DOMAIN _keys :
                _keys[i][1] = match_text
                  => status = "returned" /\ result = Column(_keys[i], out_type)
         ELSE /\ ~(status = "returned" /\ result = match_text)
              /\ api # "None" => status = "returned" /\ result = <<>>

C3_Witness ==
  /\ inits >= 1
  /\ text = <<"8", "B">>
  /\ out_type = "standard_t"
  /\ status = "returned"
  /\ result = <<"C", " ", "M", "a", "j", "o", "r">>

\* C4: converter never raises: a call whose normalised input is not a key of
\* the table returns the empty string, also when no api has been set.
C4_NeverRaises ==
  (inits >= 1 /\ Called)
    => /\ status = "returned"
       /\ match_text \notin DOMAIN keys => result = <<>>

\* C5: for every open key spelling n+letter of the table (n in 1..12, letter
\* m or d) the normalised input is the camelot key with number
\* ((n + 6) mod 12) + 1 and letter A for m, B for d; it is the camelot field
\* of the one tuple whose open field is that spelling, and converting the
\* spelling to camelot returns it.
C5_OpenRotation ==
  (inits >= 1 /\ Called)
    => \A i \in DOMAIN _keys :
         text = _keys[i][2]
           => LET n      == int(SubSeq(text, 1, Len(text) - 1))
                  letter == IF text[Len(text)] = "m" THEN "A" ELSE "B"
              IN  /\ n \in 1..12
                  /\ text[Len(text)] \in {"m", "d"}
                  /\ Cardinality({j \in DOMAIN _keys : _keys[j][2] = text}) = 1
                  /\ match_text = format(((n + 6) % 12) + 1) \o <<letter>>
                  /\ match_text = _keys[i][1]
                  /\ status = "returned"
                  /\ out_type = "camelot" => result = _keys[i][1]

C5_Witness ==
  /\ inits >= 1
  /\ text = <<"1", "d">>
  /\ out_type = "camelot"
  /\ match_text = <<"8", "B">>
  /\ status = "returned"
  /\ result = <<"8", "B">>

\* the alias entries as the claim lists them: alternate spelling, canonical spelling
C6_ClaimedAliases ==
  { <<<<"G", "#">>, <<"A", "b">>>>,
    <<<<"A", "#">>, <<"B", "b">>>>,
    <<<<"C", "#">>, <<"D", "b">>>>,
    <<<<"D", "#">>, <<"E", "b">>>>,
    <<<<"G", "#", "m">>, <<"A", "b", "m">>>>,
    <<<<"A", "#", "m">>, <<"B", "b", "m">>>>,
    <<<<"C", "#", "m">>, <<"D", "b", "m">>>>,
    <<<<"D", "#", "m">>, <<"E", "b", "m">>>>,
    <<<<"F", "#", "m">>, <<"G", "b", "m">>>>,
    <<<<"G", "-", "F", "l", "a", "t", " ", "M", "a", "j", "o", "r">>, <<"F", "-", "S", "h", "a", "r", "p", " ", "M", "a", "j", "o", "r">>>>,
    <<<<"D", "-", "S", "h", "a", "r", "p", " ", "M", "i", "n", "o", "r">>, <<"E", "-", "F", "l", "a", "t", " ", "M", "i", "n", "o", "r">>>> }

\* C6: every alias a -> c of the two alias tables: a is not a key of the
\* table, c is, and converting a gives, for every output format, the
\* non-empty value that converting c gives; "C#" to traktor is "Db" and
\* "F#m" to traktor is "Gbm".
C6_Aliases ==
  inits >= 1
    => \A p \in C6_ClaimedAliases :
         /\ p[1] \notin DOMAIN keys
         /\ p[2] \in DOMAIN keys
         /\ (Called /\ text = p[1])
              => /\ status = "returned"
                 /\ result # <<>>
                 /\ result = keys[p[2]][out_type]
                 /\ result = converter(keys, api, p[2], out_type).result
                 /\ (text = <<"C", "#">> /\ out_type = "traktor")
                      => result = <<"D", "b">>
                 /\ (text = <<"F", "#", "m">> /\ out_type = "traktor")
                      => result = <<"G", "b", "m">>

C6_Witness ==
  /\ inits >= 1
  /\ text = <<"F", "#", "m">>
  /\ out_type = "traktor"
  /\ status = "returned"
  /\ result = <<"G", "b", "m">>

\* the registered and alias spellings, each with its lower-case form
LoweredSpellings == {<<lower(c), c>> : c \in Spellings \cup AliasSpellings}

\* the registered and alias spellings that differ from s at most in letter case
SameLetters(s) == {p[2] : p \in {q \in LoweredSpellings : q[1] = lower(s)}}

\* C7: changing the case of letters of a registered spelling or of an alias
\* spelling does not change what converter does with it, for any output
\* format.
C7_CaseInsensitive ==
  Called
    => \A c \in SameLetters(text) :
         /\ status = converter(keys, api, c, out_type).status
         /\ result = converter(keys, api, c, out_type).result

C7_Witness ==
  /\ inits >= 1
  /\ text = <<"g", "-", "f", "l", "a", "t", " ", "m", "a", "j", "o", "r">>
  /\ out_type = "standard_t"
  /\ status = "returned"
  /\ result = <<"F", "-", "S", "h", "a", "r", "p", " ", "M", "a", "j", "o", "r">>

\* C8: an input of the open key shape whose number is 0 or 13..99 is not
\* turned into a camelot key: it goes through the standard-name branch, is
\* not found in the table, and converter returns the empty string for every
\* output format.
C8_OutOfRangeIsEmpty ==
  (inits >= 1 /\ Called /\ OpenOutOfRange(strip(text)))
    => /\ match_text = parse_standard(strip(text))
       /\ match_text \notin DOMAIN keys
       /\ status = "returned"
       /\ result = <<>>

\* C9: once the first initialize() has completed no operation changes
\* KeyMap.keys (a further initialize() rebuilds the same mapping), and a
\* converter call never changes it.
C9_TableStable ==
  [][(inits >= 1 \/ status' # "idle") => keys' = keys]_vars

C9_Witness ==
  /\ inits = 2
  /\ Called
  /\ keys = initialize
  /\ Cardinality(DOMAIN keys) = Len(_keys) * 3

\* C10: a converter call that runs while another thread re-runs initialize()
\* ends as it would against the fully built table: same return value, no
\* exception.
C10_SafeWithoutLocks ==
  cpc = "done"
    => /\ status = converter(initialize, api, text, out_type).status
       /\ result = converter(initialize, api, text, out_type).result

====
